---- MODULE Spec2Model ----
(***************************************************************************)
(* Model of mercury/can.py: the CANDecoder class, which turns a CAN frame  *)
(* given as text, bytes or an integer into a dict of frame fields and a    *)
(* sensor type.                                                            *)
(*                                                                         *)
(* Python values are modelled as records tagged with their type:           *)
(*   int  : [type |-> "int", neg |-> BOOLEAN, mag |-> binary digits of the *)
(*           magnitude, most significant first, no leading zero; 0 is <<>>]*)
(*   None : [type |-> "NoneType"]                                          *)
(*   str  : [type |-> "str", s |-> sequence of one-character strings]      *)
(*   bytes: [type |-> "bytes", b |-> sequence of octets]                   *)
(* Python ints are unbounded, so an int is kept as its digits and never as *)
(* a machine number; small ones are converted with ToNat where the code    *)
(* does arithmetic on them.                                                *)
(***************************************************************************)
EXTENDS Integers, Sequences, FiniteSets, TLC

VARIABLES
    raw,        \* the argument given to CANDecoder(...)
    built,      \* the Frame whose wire encoding raw is, or NoFrame
    message,    \* self.message
    data,       \* self.data, a dict: a function from its keys to values
    sensor_type,\* the local sensor_type of _decode_can_message
    api,        \* the public method being executed
    pc,         \* position in the constructor / the field walk
    reads,      \* log of the read_bits calls of the current decode
    calls,      \* number of decode calls made on this object
    result,     \* what the last constructor or decode call produced
    decoders,   \* number of CANDecoder objects made for raw so far
    last        \* the decode call that ended before the current one

vars ==
    <<raw, built, message, data, sensor_type, api, pc, reads, calls, result,
      decoders, last>>

---------------------------------------------------------------------------
(* Python values *)

NoneVal == [type |-> "NoneType"]

IntVal(neg, mag) == [type |-> "int", neg |-> neg, mag |-> mag]

StrVal(s) == [type |-> "str", s |-> s]

BytesVal(b) == [type |-> "bytes", b |-> b]

\* Python's == between values: values of different types are never equal
\* (an int is never equal to a str).
PyEq(a, b) == a.type = b.type /\ a = b

RECURSIVE StripZeros(_)
\* the digits of a magnitude without its leading zeros
StripZeros(bits) ==
    IF bits = <<>> THEN <<>>
    ELSE IF Head(bits) = 0 THEN StripZeros(Tail(bits))
    ELSE bits

RECURSIVE ToNat(_)
\* the number a short digit sequence denotes
ToNat(bits) ==
    IF bits = <<>> THEN 0
    ELSE 2 * ToNat(SubSeq(bits, 1, Len(bits) - 1)) + bits[Len(bits)]

RECURSIVE NatBits(_)
\* the binary digits of a natural number, no leading zero
NatBits(n) ==
    IF n = 0 THEN <<>> ELSE Append(NatBits(n \div 2), n % 2)

\* the Python int n, for a small natural number n
IntOf(n) == IntVal(FALSE, NatBits(n))

---------------------------------------------------------------------------
(* str slicing, int(s, 2), int(s) and bin(n) *)

\* s[0:n] for n >= 0: the first n characters, or all of s when it is shorter
SliceTo(s, n) == SubSeq(s, 1, IF n < Len(s) THEN n ELSE Len(s))

\* s[n:] for n >= 0: s without its first n characters, "" when it is shorter
SliceFrom(s, n) == SubSeq(s, n + 1, Len(s))

BinDigit == {"0", "1"}

DecDigit == {"0", "1", "2", "3", "4", "5", "6", "7", "8", "9"}

DigitValue(c) ==
    CASE c = "0" -> 0 [] c = "1" -> 1 [] c = "2" -> 2 [] c = "3" -> 3
      [] c = "4" -> 4 [] c = "5" -> 5 [] c = "6" -> 6 [] c = "7" -> 7
      [] c = "8" -> 8 [] c = "9" -> 9

\* s without a leading minus sign
Unsigned(s) == IF s # <<>> /\ Head(s) = "-" THEN Tail(s) ELSE s

HasSign(s) == s # <<>> /\ Head(s) = "-"

\* int(s, base) accepts an optional sign followed by at least one digit of
\* the base (the inputs of the model hold no blank, underscore or prefix).
IsNumeral(s, digits) ==
    /\ Unsigned(s) # <<>>
    /\ \A i \in 1..Len(Unsigned(s)) : Unsigned(s)[i] \in digits

\* int(s, 2) where IsNumeral(s, BinDigit)
ParseBase2(s) ==
    LET d == Unsigned(s)
        mag == StripZeros([i \in 1..Len(d) |-> DigitValue(d[i])])
    IN IntVal(HasSign(s) /\ mag # <<>>, mag)

RECURSIVE DecValue(_)
DecValue(d) ==
    IF d = <<>> THEN 0
    ELSE 10 * DecValue(SubSeq(d, 1, Len(d) - 1)) + DigitValue(d[Len(d)])

\* int(s) where IsNumeral(s, DecDigit); decimal inputs of the model are short
ParseBase10(s) ==
    LET mag == NatBits(DecValue(Unsigned(s)))
    IN IntVal(HasSign(s) /\ mag # <<>>, mag)

DigitChar(b) == IF b = 0 THEN "0" ELSE "1"

\* bin(n): "0b" and the digits, "0b0" for zero, a "-" in front when negative
Bin(n) ==
    LET digits == IF n.mag = <<>> THEN <<"0">>
                  ELSE [i \in 1..Len(n.mag) |-> DigitChar(n.mag[i])]
    IN (IF n.neg THEN <<"-">> ELSE <<>>) \o <<"0", "b">> \o digits

---------------------------------------------------------------------------
(* Module constants and exceptions of can.py *)

\* ID_TO_SENSOR_MAP: the classes are named by their sensor
ClassVal(name) == [type |-> "type", name |-> name]

ID_TO_SENSOR_MAP ==
    [k \in 1..5 |->
        CASE k = 1 -> ClassVal("TemperatureSensor")
          [] k = 2 -> ClassVal("AccelerationSensor")
          [] k = 3 -> ClassVal("WheelSpeedSensor")
          [] k = 4 -> ClassVal("SuspensionSensor")
          [] k = 5 -> ClassVal("FuelLevelSensor")]

\* the limit of the length check in __init__
MaxMessageLen == 130

\* the number of characters _decode_can_message strips for the "0b" of bin()
PrefixLen == 2

NoResult == [kind |-> "none"]

\* an exception propagating to the caller
Raised(exc) == [kind |-> "raise", exc |-> exc]

InvalidBitException(value, field_name) ==
    [kind |-> "raise", exc |-> "InvalidBitException",
     value |-> value, field_name |-> field_name]

MessageLengthException(value) ==
    [kind |-> "raise", exc |-> "MessageLengthException", value |-> IntOf(value)]

\* raise NotImplementedError(): no argument is given
NotImplementedError == Raised("NotImplementedError")

\* what int() raises on text that is no numeral
ValueError == Raised("ValueError")

UnicodeDecodeError == Raised("UnicodeDecodeError")

---------------------------------------------------------------------------
(* CANDecoder.__init__ *)

\* bytes.decode("utf-8") of octets below 128 gives the characters with those
\* code points; the model's texts use the ones listed here.
CharOf(o) ==
    CASE o = 45 -> "-" [] o = 48 -> "0" [] o = 49 -> "1" [] o = 50 -> "2"
      [] o = 57 -> "9" [] o = 98 -> "b" [] o = 120 -> "x"

IsUtf8(b) == \A i \in 1..Len(b) : b[i] < 128

Utf8Decode(b) == StrVal([i \in 1..Len(b) |-> CharOf(b[i])])

\* lines 47-55 with the two parses of lines 51 and 53 exchanged (for texts
\* short enough to be decimal numerals of the model)
NormalizeDecimalFirst(m) ==
    LET t == IF m.type = "bytes" THEN Utf8Decode(m.b) ELSE m
    IN IF m.type = "bytes" /\ ~IsUtf8(m.b)
         THEN [raised |-> TRUE, exc |-> UnicodeDecodeError]
       ELSE IF t.type = "str"
         THEN IF IsNumeral(t.s, DecDigit) /\ Len(t.s) <= 4
                THEN [raised |-> FALSE, message |-> Bin(ParseBase10(t.s))]
              ELSE IF IsNumeral(t.s, BinDigit)
                THEN [raised |-> FALSE, message |-> Bin(ParseBase2(t.s))]
              ELSE [raised |-> TRUE, exc |-> ValueError]
       ELSE [raised |-> FALSE, message |-> Bin(t)]

\* lines 47-55: the conversion of the argument to the text of bin();
\* gives [raised, message] or [raised, exc]
Normalize(m) ==
    LET t == IF m.type = "bytes" THEN Utf8Decode(m.b) ELSE m
    IN IF m.type = "bytes" /\ ~IsUtf8(m.b)
         THEN [raised |-> TRUE, exc |-> UnicodeDecodeError]
       ELSE IF t.type = "str"
         THEN IF IsNumeral(t.s, BinDigit)
                THEN [raised |-> FALSE, message |-> Bin(ParseBase2(t.s))]
              ELSE IF IsNumeral(t.s, DecDigit)
                THEN [raised |-> FALSE, message |-> Bin(ParseBase10(t.s))]
              ELSE [raised |-> TRUE, exc |-> ValueError]
       ELSE [raised |-> FALSE, message |-> Bin(t)]

\* lines 57-59
TooLong(msg) == Len(msg) > MaxMessageLen

\* __init__ as a whole: the new object's message, or the exception
CANDecoderInit(m) ==
    LET n == Normalize(m)
    IN IF n.raised THEN n
       ELSE IF TooLong(n.message)
         THEN [raised |-> TRUE, exc |-> MessageLengthException(Len(n.message))]
       ELSE n

---------------------------------------------------------------------------
(* read_bits and read_bits_as_int *)

\* read_bits returning the slice without removing it from the message
read_bits_peek(msg, num_bits) ==
    [value |-> SliceTo(msg, num_bits), message |-> msg]

\* read_bits: the slice returned and the message left
read_bits(msg, num_bits) ==
    [value |-> SliceTo(msg, num_bits), message |-> SliceFrom(msg, num_bits)]

\* the guard of read_bits_as_int
ReadsBits(num_bits) == num_bits > 0

\* read_bits_as_int: [raised, value, message, log]; log lists the read_bits
\* call made. Without a read the method falls off its end and returns None.
read_bits_as_int(msg, num_bits) ==
    IF ReadsBits(num_bits)
      THEN LET r == read_bits(msg, num_bits)
               log == <<[num_bits |-> num_bits, bits |-> r.value]>>
           IN IF IsNumeral(r.value, BinDigit)
                THEN [raised |-> FALSE, value |-> ParseBase2(r.value),
                      message |-> r.message, log |-> log]
              ELSE [raised |-> TRUE, value |-> NoneVal,
                    message |-> r.message, log |-> log]
      ELSE [raised |-> FALSE, value |-> NoneVal, message |-> msg, log |-> <<>>]

---------------------------------------------------------------------------
(* Inputs: frames written out in wire order, and a few other arguments *)

\* how many bits are appended after a frame's interframe space
MaxTrail == 4

\* how many bits are cut off a frame's end
MaxCut == 3

\* how many decode calls are made on one decoder object
MaxCalls == 2

\* how many decoder objects are made for one argument
MaxDecoders == 2

RECURSIVE Bits(_, _)
\* the w-character big-endian binary text of n
Bits(n, w) ==
    IF w = 0 THEN <<>> ELSE Append(Bits(n \div 2, w - 1), DigitChar(n % 2))

\* a payload of dlc bytes: all zero (p = 0) or alternating, starting with 1
Payload(dlc, p) ==
    [i \in 1..(8 * dlc) |-> IF p = 1 /\ i % 2 = 1 THEN "1" ELSE "0"]

\* the field widths of the field walk, in wire order
Wire(f) ==
    Bits(f.sof, 1) \o Bits(f.can_id, 11) \o Bits(f.rtr, 1) \o Bits(f.ide, 1)
    \o (IF f.ide = 1 THEN Bits(f.extended_can_id, 18) \o Bits(f.rtr2, 1)
        ELSE <<>>)
    \o Bits(f.r0, 1) \o Bits(f.data_length_code, 4) \o f.data
    \o Bits(f.crc_segment, 15) \o Bits(f.crc_delimiter, 1)
    \o Bits(f.ack_bit, 1) \o Bits(f.ack_delimiter, 1)
    \o Bits(f.end_of_frame, 7) \o Bits(f.interframe_space, 3)

\* 1+11+1+1+(19 if extended)+1+4+8*dlc+15+1+1+1+7+3
LayoutLen(ide, dlc) == 47 + (IF ide = 1 THEN 19 ELSE 0) + 8 * dlc

Frame(sof, can_id, rtr, ide, rtr2, dlc, p, r0, crcd, ack, ackd) ==
    [sof |-> sof, can_id |-> can_id, rtr |-> rtr, ide |-> ide,
     extended_can_id |-> 131073 * ide, rtr2 |-> rtr2, r0 |-> r0,
     data_length_code |-> dlc, data |-> Payload(dlc, p),
     crc_segment |-> 21845 * p, crc_delimiter |-> crcd, ack_bit |-> ack,
     ack_delimiter |-> ackd, end_of_frame |-> 127, interframe_space |-> 7]

CanIds == {1, 2, 5, 6, 1025, 2047}

Bit == {0, 1}

\* frames that vary the header fields
HeaderFrames ==
    {Frame(sof, id, rtr, ide, rtr2, dlc, p, 0, 1, 0, 1) :
        sof \in Bit, id \in CanIds, rtr \in Bit, ide \in Bit,
        rtr2 \in Bit, dlc \in 0..2, p \in Bit}

\* frames that vary the payload length
LengthFrames ==
    {Frame(sof, 1, 0, ide, 0, dlc, p, 0, 1, 0, 1) :
        sof \in Bit, ide \in Bit, dlc \in 0..15, p \in Bit}

\* frames that vary the reserved, delimiter and acknowledge bits
TrailerFrames ==
    {Frame(sof, 1, 0, ide, 0, dlc, 0, r0, crcd, ack, ackd) :
        sof \in Bit, ide \in Bit, dlc \in 0..1, r0 \in Bit, crcd \in Bit,
        ack \in Bit, ackd \in Bit}

TrailBits(k) == [i \in 1..k |-> IF i % 2 = 1 THEN "1" ELSE "0"]

\* the text of frame f with its last cut bits missing and trail bits added
FrameText(f, cut, trail) ==
    SubSeq(Wire(f), 1, Len(Wire(f)) - cut) \o TrailBits(trail)

OctetOf(c) ==
    CASE c = "-" -> 45 [] c = "0" -> 48 [] c = "1" -> 49 [] c = "2" -> 50
      [] c = "9" -> 57 [] c = "b" -> 98 [] c = "x" -> 120

\* the argument of the given type that denotes the text t
Arg(type, t) ==
    CASE type = "str" -> StrVal(t)
      [] type = "bytes" -> BytesVal([i \in 1..Len(t) |-> OctetOf(t[i])])
      [] type = "int" -> ParseBase2(t)

NoFrame == [is_frame |-> FALSE]

FrameInput(type, f, cut, trail) ==
    [raw |-> Arg(type, FrameText(f, cut, trail)),
     built |-> [is_frame |-> TRUE, f |-> f, cut |-> cut, trail |-> trail]]

OtherInput(arg) == [raw |-> arg, built |-> NoFrame]

OtherTexts ==
    {<<>>, <<"0">>, <<"1", "0", "1">>, <<"1", "1", "1", "1">>, <<"1", "2">>,
     <<"9">>, <<"-", "1", "0", "1">>, <<"x">>, <<"-">>}

Inputs ==
    {FrameInput("str", f, 0, 0) : f \in HeaderFrames}
    \cup {FrameInput("str", f, cut, 0) : f \in LengthFrames, cut \in 0..MaxCut}
    \cup {FrameInput("str", f, 0, trail) :
            f \in LengthFrames, trail \in 1..MaxTrail}
    \cup {FrameInput(type, f, 0, 0) :
            type \in {"str", "bytes", "int"}, f \in TrailerFrames}
    \cup {OtherInput(StrVal(t)) : t \in OtherTexts}
    \cup {OtherInput(Arg("bytes", t)) : t \in OtherTexts}
    \cup {OtherInput(BytesVal(<<255>>)), OtherInput(IntOf(0)),
          OtherInput(IntOf(5)), OtherInput(IntVal(TRUE, <<1, 0, 1>>))}

---------------------------------------------------------------------------
(* The decoder object: construction, decode calls and the field walk *)

EmptyDict == [k \in {} |-> NoneVal]

\* d[k] = v
Put(d, k, v) == (k :> v) @@ d

\* the truth value of the payload in the dict instead of the dict's own
TruthyPayload(d) == d["data"] # NoneVal /\ d["data"] # IntOf(0)

\* the truth value of a dict
Truthy(d) == DOMAIN d # {}

\* the comparisons of lines 96, 141 and 148: the field against the text "0"
EqualsTextZero(v) == PyEq(v, StrVal(<<"0">>))

\* the lookup of line 106 succeeds
Mapped(can_id) == ToNat(can_id.mag) \in DOMAIN ID_TO_SENSOR_MAP

\* the test of line 123 with its branches exchanged
IsExtendedInverted(ide) == ToNat(ide.mag) # 1

\* the test of line 123
IsExtended(ide) == ToNat(ide.mag) = 1

\* the width of the data field, line 132
DataBits(dlc) == ToNat(dlc.mag) * 8

\* the read_bits calls of one read_bits_as_int, tagged with the dict key
Logged(key, log) ==
    [i \in 1..Len(log) |->
        [key |-> key, num_bits |-> log[i].num_bits, bits |-> log[i].bits]]

\* no decode call has ended yet
NoCall == [ended |-> FALSE]

\* the decode call that has just ended, as its caller saw it: the method,
\* what it returned or raised, and whether it was the first on its object
EndedCall == [ended |-> TRUE, api |-> api, result |-> result, first |-> calls = 1]

\* last, once the caller goes on from the current position
Remember == IF pc \in {"returned", "raised"} THEN EndedCall ELSE last

Init ==
    /\ \E inp \in Inputs : raw = inp.raw /\ built = inp.built
    /\ message = <<>>
    /\ data = EmptyDict
    /\ sensor_type = NoneVal
    /\ api = "none"
    /\ pc = "new"
    /\ reads = <<>>
    /\ calls = 0
    /\ result = NoResult
    /\ decoders = 1
    /\ last = NoCall

\* CANDecoder(raw)
Construct ==
    /\ pc = "new"
    /\ LET r == CANDecoderInit(raw)
       IN IF r.raised
            THEN /\ pc' = "failed"
                 /\ result' = r.exc
                 /\ UNCHANGED message
            ELSE /\ pc' = "ready"
                 /\ message' = r.message
                 /\ UNCHANGED result
    /\ UNCHANGED <<raw, built, data, sensor_type, api, reads, calls, decoders,
                   last>>

\* a call of decode_can_message or decode_can_message_full_dict on the
\* object, up to line 92 of _decode_can_message
Decode(method) ==
    /\ pc \in {"ready", "returned", "raised"}
    /\ calls < MaxCalls
    /\ calls' = calls + 1
    /\ api' = method
    /\ message' = SliceFrom(message, PrefixLen)
    /\ reads' = <<>>
    /\ result' = NoResult
    /\ pc' = "sof"
    /\ last' = Remember
    /\ UNCHANGED <<raw, built, data, sensor_type, decoders>>

\* the caller makes another CANDecoder for the same argument: the new object
\* starts from the argument and an empty dict (lines 41-42)
NewDecoder ==
    /\ pc \in {"failed", "returned", "raised"}
    /\ decoders < MaxDecoders
    /\ decoders' = decoders + 1
    /\ last' = Remember
    /\ message' = <<>>
    /\ data' = EmptyDict
    /\ sensor_type' = NoneVal
    /\ api' = "none"
    /\ reads' = <<>>
    /\ calls' = 0
    /\ result' = NoResult
    /\ pc' = "new"
    /\ UNCHANGED <<raw, built>>

\* self.data[key] = self.read_bits_as_int(num_bits), then go on at next
ReadField(at, key, num_bits, next) ==
    /\ pc = at
    /\ LET r == read_bits_as_int(message, num_bits)
       IN /\ message' = r.message
          /\ reads' = reads \o Logged(key, r.log)
          /\ IF r.raised
               THEN pc' = "raised" /\ result' = ValueError /\ UNCHANGED data
               ELSE pc' = next /\ data' = Put(data, key, r.value)
                    /\ UNCHANGED result
    /\ UNCHANGED <<raw, built, sensor_type, api, calls, decoders, last>>

\* the same followed by the check of a fixed bit
ReadFixedBit(at, key, field_name, next) ==
    /\ pc = at
    /\ LET r == read_bits_as_int(message, 1)
       IN /\ message' = r.message
          /\ reads' = reads \o Logged(key, r.log)
          /\ IF r.raised
               THEN pc' = "raised" /\ result' = ValueError /\ UNCHANGED data
               ELSE /\ data' = Put(data, key, r.value)
                    /\ IF EqualsTextZero(r.value)
                         THEN /\ pc' = "raised"
                              /\ result' = InvalidBitException(r.value, field_name)
                         ELSE pc' = next /\ UNCHANGED result
    /\ UNCHANGED <<raw, built, sensor_type, api, calls, decoders, last>>

\* lines 95-97
ReadSof == ReadFixedBit("sof", "sof", "Start of Frame", "can_id")

\* lines 104-111
ReadCanId ==
    /\ pc = "can_id"
    /\ LET r == read_bits_as_int(message, 11)
       IN /\ message' = r.message
          /\ reads' = reads \o Logged("can_id", r.log)
          /\ IF r.raised
               THEN /\ pc' = "raised" /\ result' = ValueError
                    /\ UNCHANGED <<data, sensor_type>>
               ELSE /\ data' = Put(data, "can_id", r.value)
                    /\ IF Mapped(r.value)
                         THEN /\ sensor_type' = ID_TO_SENSOR_MAP[ToNat(r.value.mag)]
                              /\ pc' = "rtr"
                              /\ UNCHANGED result
                         ELSE /\ pc' = "raised"
                              /\ result' = NotImplementedError
                              /\ UNCHANGED sensor_type
    /\ UNCHANGED <<raw, built, api, calls, decoders, last>>

\* line 114
ReadRtr == ReadField("rtr", "rtr", 1, "ide")

\* lines 122-124 and 127-129
ReadIde ==
    /\ pc = "ide"
    /\ LET r == read_bits_as_int(message, 1)
       IN /\ message' = r.message
          /\ reads' = reads \o Logged("ide", r.log)
          /\ IF r.raised
               THEN pc' = "raised" /\ result' = ValueError /\ UNCHANGED data
               ELSE /\ UNCHANGED result
                    /\ IF IsExtended(r.value)
                         THEN /\ data' = Put(Put(data, "ide", r.value),
                                             "srr", data["rtr"])
                              /\ pc' = "extended_can_id"
                         ELSE /\ data' = Put(Put(Put(data, "ide", r.value),
                                                 "srr", NoneVal),
                                             "extended_can_id", NoneVal)
                              /\ pc' = "r0"
    /\ UNCHANGED <<raw, built, sensor_type, api, calls, decoders, last>>

\* line 125
ReadExtendedCanId ==
    ReadField("extended_can_id", "extended_can_id", 18, "rtr2")

\* line 126 storing the bit under the key of line 124
ReadRtrAgainAsSrr == ReadField("rtr2", "srr", 1, "r0")

\* line 126
ReadRtrAgain == ReadField("rtr2", "rtr", 1, "r0")

\* line 130
ReadR0 == ReadField("r0", "r0", 1, "data_length_code")

\* line 131
ReadDataLengthCode ==
    ReadField("data_length_code", "data_length_code", 4, "data")

\* line 132
ReadData ==
    /\ pc = "data"
    /\ ReadField("data", "data", DataBits(data["data_length_code"]),
                 "crc_segment")

\* line 138
ReadCrcSegment == ReadField("crc_segment", "crc_segment", 15, "crc_delimiter")

\* lines 140-142
ReadCrcDelimiter ==
    ReadFixedBit("crc_delimiter", "crc_delimiter", "CRC Delimiter", "ack_bit")

\* line 146
ReadAckBit == ReadField("ack_bit", "ack_bit", 1, "ack_delimiter")

\* lines 147-149
ReadAckDelimiter ==
    ReadFixedBit("ack_delimiter", "ack_delimiter", "ACK Delimiter",
                 "end_of_frame")

\* line 152
ReadEndOfFrame ==
    ReadField("end_of_frame", "end_of_frame", 7, "interframe_space")

\* line 155 reading whatever is left of the message
ReadInterframeSpaceToEnd ==
    ReadField("interframe_space", "interframe_space", Len(message), "return")

\* line 155
ReadInterframeSpace ==
    ReadField("interframe_space", "interframe_space", 3, "return")

\* line 156 and the return of the public method that was called
Return ==
    /\ pc = "return"
    /\ pc' = "returned"
    /\ result' =
         IF api = "decode_can_message"
           THEN IF Truthy(data)
                  THEN [kind |-> "return", sensor_type |-> sensor_type,
                        value |-> data["data"]]
                  ELSE [kind |-> "return", sensor_type |-> NoneVal,
                        value |-> NoneVal]
           ELSE [kind |-> "return", sensor_type |-> sensor_type,
                 value |-> data]
    /\ UNCHANGED <<raw, built, message, data, sensor_type, api, reads, calls,
                   decoders, last>>

Next ==
    \/ Construct
    \/ NewDecoder
    \/ Decode("decode_can_message")
    \/ Decode("decode_can_message_full_dict")
    \/ ReadSof
    \/ ReadCanId
    \/ ReadRtr
    \/ ReadIde
    \/ ReadExtendedCanId
    \/ ReadRtrAgain
    \/ ReadR0
    \/ ReadDataLengthCode
    \/ ReadData
    \/ ReadCrcSegment
    \/ ReadCrcDelimiter
    \/ ReadAckBit
    \/ ReadAckDelimiter
    \/ ReadEndOfFrame
    \/ ReadInterframeSpace
    \/ Return

Spec == Init /\ [][Next]_vars

---------------------------------------------------------------------------
(* Vocabulary of the properties *)

FullDict == "decode_can_message_full_dict"

Reduced == "decode_can_message"

\* the constructor or the current decode call has ended
Ended == pc \in {"failed", "returned", "raised"}

\* raw is the text of the whole frame built.f and nothing else, and this is
\* the first decode on the object (or the constructor refused the text)
WholeFrameText ==
    /\ built.is_frame
    /\ built.cut = 0
    /\ built.trail = 0
    /\ raw.type = "str"
    /\ calls <= 1

\* frame f fits the length limit of the specification (130 bits)
Fits(f) == LayoutLen(f.ide, f.data_length_code) <= MaxMessageLen

\* the fixed bits and the identifier of f are as the wire layout demands
RespectsLayout(f) ==
    /\ f.sof = 0
    /\ f.can_id \in 1..5
    /\ f.crc_delimiter = 1
    /\ f.ack_delimiter = 1

\* the unsigned value of a field given as binary text
FieldValue(text) ==
    IntVal(FALSE, StripZeros([i \in 1..Len(text) |-> DigitValue(text[i])]))

\* the payload value of f; for an empty payload None and 0 both count
PayloadValues(f) ==
    IF f.data_length_code = 0 THEN {NoneVal, IntOf(0)}
    ELSE {FieldValue(f.data)}

FrameKeys ==
    {"sof", "can_id", "rtr", "ide", "srr", "extended_can_id", "r0",
     "data_length_code", "data", "crc_segment", "crc_delimiter", "ack_bit",
     "ack_delimiter", "end_of_frame", "interframe_space"}

\* dict d holds exactly the field values frame f was built from
SameFrame(d, f) ==
    /\ DOMAIN d = FrameKeys
    /\ d["sof"] = IntOf(f.sof)
    /\ d["can_id"] = IntOf(f.can_id)
    /\ d["ide"] = IntOf(f.ide)
    /\ d["rtr"] = IntOf(IF f.ide = 1 THEN f.rtr2 ELSE f.rtr)
    /\ d["srr"] = (IF f.ide = 1 THEN IntOf(f.rtr) ELSE NoneVal)
    /\ d["extended_can_id"] =
         (IF f.ide = 1 THEN IntOf(f.extended_can_id) ELSE NoneVal)
    /\ d["r0"] = IntOf(f.r0)
    /\ d["data_length_code"] = IntOf(f.data_length_code)
    /\ d["data"] \in PayloadValues(f)
    /\ d["crc_segment"] = IntOf(f.crc_segment)
    /\ d["crc_delimiter"] = IntOf(f.crc_delimiter)
    /\ d["ack_bit"] = IntOf(f.ack_bit)
    /\ d["ack_delimiter"] = IntOf(f.ack_delimiter)
    /\ d["end_of_frame"] = IntOf(f.end_of_frame)
    /\ d["interframe_space"] = IntOf(f.interframe_space)

\* the read_bits call made for dict key key has happened in this decode
HasRead(key) == \E i \in 1..Len(reads) : reads[i].key = key

\* the bits the first read for key returned
FirstRead(key) ==
    reads[CHOOSE i \in 1..Len(reads) :
            /\ reads[i].key = key
            /\ \A j \in 1..(i - 1) : reads[j].key # key].bits

RECURSIVE SumLen(_)
SumLen(log) ==
    IF log = <<>> THEN 0 ELSE Len(Head(log).bits) + SumLen(Tail(log))

\* the number of bits the current decode has taken off the message
Consumed == SumLen(reads)

---------------------------------------------------------------------------
(* Properties *)

\* C1: round trip. The text of a frame that respects the wire layout
\* (start_of_frame 0, arbitration id 1..5, both delimiters 1) and fits the
\* length limit decodes with decode_can_message_full_dict to a dict holding
\* the field values the frame was built from.
C1_RoundTrip ==
    (WholeFrameText /\ Ended /\ RespectsLayout(built.f) /\ Fits(built.f)
     /\ api \in {"none", FullDict})
    => /\ result.kind = "return"
       /\ SameFrame(result.value, built.f)

\* C2: for the text of a valid standard frame with start_of_frame 0, a
\* mapped arbitration id k and payload p, decode_can_message returns the
\* sensor type of k and p; the frame with id 1, one zero data byte, zero
\* CRC and ACK returns (TemperatureSensor, 0).
C2_DecodeStandardFrame ==
    (WholeFrameText /\ Ended /\ RespectsLayout(built.f) /\ Fits(built.f)
     /\ built.f.ide = 0 /\ api \in {"none", Reduced})
    => /\ result.kind = "return"
       /\ result.sensor_type = ID_TO_SENSOR_MAP[built.f.can_id]
       /\ result.value \in PayloadValues(built.f)

\* C3: once the start_of_frame bit has been read, a bit read as 1 has ended
\* the decode in InvalidBitException for "Start of Frame" with value 1, and a
\* bit read as 0 has not ended it in that exception.
C3_StartOfFrameChecked ==
    (HasRead("sof") /\ pc # "sof")
    => /\ FirstRead("sof") = <<"1">>
            => /\ pc = "raised"
               /\ result = InvalidBitException(IntOf(1), "Start of Frame")
       /\ FirstRead("sof") = <<"0">>
            => ~(result.kind = "raise" /\ result.exc = "InvalidBitException")

\* C4: once crc_delimiter has been read as 0 the decode has ended in
\* InvalidBitException for "CRC Delimiter", and once ack_delimiter has been
\* read as 0 it has ended in InvalidBitException for "ACK Delimiter"; no
\* frame is returned in either case.
C4_DelimitersChecked ==
    /\ (HasRead("crc_delimiter") /\ FirstRead("crc_delimiter") = <<"0">>)
         => /\ pc = "raised"
            /\ result = InvalidBitException(IntOf(0), "CRC Delimiter")
    /\ (HasRead("ack_delimiter") /\ FirstRead("ack_delimiter") = <<"0">>)
         => /\ pc = "raised"
            /\ result = InvalidBitException(IntOf(0), "ACK Delimiter")

\* C5: the text of an otherwise valid standard frame whose arbitration id is
\* not one of 1..5 ends the decode in the unknown-id error
\* (NotImplementedError) with the frame's id as the id decoded and reported,
\* and never in a returned classification.
C5_UnknownIdRaises ==
    (WholeFrameText /\ Ended /\ Fits(built.f) /\ built.f.sof = 0
     /\ built.f.ide = 0 /\ built.f.can_id \notin DOMAIN ID_TO_SENSOR_MAP
     /\ built.f.crc_delimiter = 1 /\ built.f.ack_delimiter = 1)
    => /\ result = NotImplementedError
       /\ "can_id" \in DOMAIN data
       /\ data["can_id"] = IntOf(built.f.can_id)

\* the length of the canonical bit sequence of raw: the text of bin()
\* without its two-character format marker
CanonicalLen == Len(Normalize(raw).message) - PrefixLen

\* the constructor accepts raw as a numeral
Normalizes == ~Normalize(raw).raised

TooLongError == result.kind = "raise" /\ result.exc = "MessageLengthException"

\* C6: length boundary. After construction an input whose canonical bit
\* sequence is longer than 130 bits has failed with MessageLengthException
\* carrying that length, and no input of 130 bits or fewer has been rejected
\* as too long.
C6_LengthBoundary ==
    (pc # "new" /\ Normalizes)
    => /\ CanonicalLen > MaxMessageLen
            => result = MessageLengthException(CanonicalLen)
       /\ CanonicalLen <= MaxMessageLen => ~TooLongError

\* C7: read_bits never returns fewer bits than were asked for: a read that
\* found fewer bits left is the last one of the decode and ended it in an
\* error.
C7_ShortReadFails ==
    \A i \in 1..Len(reads) :
        Len(reads[i].bits) < reads[i].num_bits
        => i = Len(reads) /\ pc = "raised"

\* C8: a frame decoded with data_length_code 0 has data 0 in its dict, and
\* decode_can_message returns 0 as its payload.
C8_EmptyPayloadIsZero ==
    (pc = "returned" /\ data["data_length_code"] = IntOf(0))
    => /\ data["data"] = IntOf(0)
       /\ api = Reduced => result.value = IntOf(0)

\* C9: a decode that succeeds has read the data field at exactly
\* 8 * data_length_code bits and has consumed exactly the layout length
\* 1+11+1+1+(19 if extended)+1+4+8*dlc+15+1+1+1+7+3 of the ide and
\* data_length_code it decoded, so at least that many bits were there.
C9_ConsumedIsLayoutLength ==
    pc = "returned"
    => /\ HasRead("data") \/ data["data_length_code"] = IntOf(0)
       /\ HasRead("data")
            => Len(FirstRead("data")) = DataBits(data["data_length_code"])
       /\ Consumed = LayoutLen(ToNat(data["ide"].mag),
                               ToNat(data["data_length_code"].mag))

\* the read after the first read for key, as a dict key
NextReadAfter(key) ==
    reads[1 + CHOOSE i \in 1..Len(reads) :
                /\ reads[i].key = key
                /\ \A j \in 1..(i - 1) : reads[j].key # key].key

\* C10: a frame decoded with its ide bit read as 0 has srr and
\* extended_can_id None, in self.data and in what
\* decode_can_message_full_dict returns, and the read that follows the ide
\* bit is the one of the reserved bit r0.
C10_StandardFrameHasNoExtension ==
    (pc = "returned" /\ data["ide"] = IntOf(0))
    => /\ data["srr"] = NoneVal
       /\ data["extended_can_id"] = NoneVal
       /\ api = FullDict
            => /\ result.value["srr"] = NoneVal
               /\ result.value["extended_can_id"] = NoneVal
       /\ NextReadAfter("ide") = "r0"

\* a standard frame has been decoded by decode_can_message_full_dict
C10_Witness ==
    /\ pc = "returned"
    /\ api = FullDict
    /\ data["ide"] = IntOf(0)
    /\ built.is_frame
    /\ built.f.ide = 0
    /\ result.kind = "return"

\* the bits returned by the reads made for key, in the order of the reads
ReadsFor(key) ==
    LET these == SelectSeq(reads, LAMBDA r : r.key = key)
    IN [i \in 1..Len(these) |-> these[i].bits]

\* the dict keys of the reads made, in the order of the reads
ReadKeys == [i \in 1..Len(reads) |-> reads[i].key]

\* C11: a frame decoded with its ide bit read as 1 has as rtr the bit read
\* after the 18-bit extended id (the second RTR read), as srr the bit read
\* before the ide bit (the first RTR read) and as extended_can_id the 18 bits
\* read between the ide bit and the second RTR bit.
C11_ExtendedFrameRereadsRtr ==
    (pc = "returned" /\ data["ide"] = IntOf(1))
    => /\ Len(ReadsFor("rtr")) = 2
       /\ data["rtr"] = FieldValue(ReadsFor("rtr")[2])
       /\ data["srr"] = FieldValue(ReadsFor("rtr")[1])
       /\ Len(ReadsFor("extended_can_id")) = 1
       /\ Len(ReadsFor("extended_can_id")[1]) = 18
       /\ data["extended_can_id"] = FieldValue(ReadsFor("extended_can_id")[1])
       /\ SubSeq(ReadKeys, 3, 6) = <<"rtr", "ide", "extended_can_id", "rtr">>
       /\ api = FullDict => result.value = data

\* an extended frame whose two RTR bits differ has been decoded
C11_Witness ==
    /\ pc = "returned"
    /\ api = FullDict
    /\ data["ide"] = IntOf(1)
    /\ Len(ReadsFor("rtr")) = 2
    /\ ReadsFor("rtr")[1] # ReadsFor("rtr")[2]
    /\ data["extended_can_id"] # IntOf(0)

\* C12: a decode call gives its caller the same result as the call of the
\* same method that ended before it for the same argument, whether that call
\* was made on another decoder object or earlier on the same object.
C12_SameResultAcrossCalls ==
    (pc \in {"returned", "raised"} /\ last.ended /\ last.api = api)
    => result = last.result

\* the characters of a text or bytes argument
Chars(arg) ==
    IF arg.type = "str" THEN arg.s
    ELSE [i \in 1..Len(arg.b) |-> CharOf(arg.b[i])]

\* arg is text, or bytes that are valid UTF-8
IsTextual(arg) ==
    \/ arg.type = "str"
    \/ arg.type = "bytes" /\ IsUtf8(arg.b)

AllIn(t, digits) == t # <<>> /\ \A i \in 1..Len(t) : t[i] \in digits

RECURSIVE CanonicalDigits(_)
\* a binary text without its leading zeros, "0" when nothing else is left
CanonicalDigits(t) ==
    IF Len(t) <= 1 THEN t
    ELSE IF Head(t) = "0" THEN CanonicalDigits(Tail(t))
    ELSE t

\* C13: a text or bytes argument made only of the digits 0 and 1 is read in
\* base 2 (self.message is "0b" and the digits from the first 1 on; "101"
\* gives 0b101, the value 5), and if the constructor refuses it, then as too
\* long and not as a bad numeral; a text of decimal digits that is no base-2
\* numeral is read in base 10; bytes and text with the same characters give
\* the same self.message.
C13_BinaryBeforeDecimal ==
    (pc \in {"ready", "failed"} /\ calls = 0 /\ IsTextual(raw))
    => LET t == Chars(raw)
       IN /\ AllIn(t, BinDigit)
               => /\ pc = "ready" => message = <<"0", "b">> \o CanonicalDigits(t)
                  /\ pc = "failed" => TooLongError
          /\ t = <<"1", "0", "1">> => pc = "ready" /\ message = Bin(IntOf(5))
          /\ (AllIn(t, DecDigit) /\ ~AllIn(t, BinDigit))
               => pc = "ready" /\ message = Bin(IntOf(DecValue(t)))

\* the bytes b"101" have been taken as the value 5
C13_Witness ==
    /\ pc = "ready"
    /\ raw = BytesVal(<<49, 48, 49>>)
    /\ message = <<"0", "b", "1", "0", "1">>

\* C14: when a decode call ends in an exception, the caller can observe no
\* frame field decoded before the failure: none is returned and the decoder
\* object's data dict holds none.
C14_NoPartialFrame ==
    (pc = "raised" /\ calls = 1)
    => /\ result.kind = "raise"
       /\ data = EmptyDict

\* arg is the empty text or denotes the value zero
EmptyOrZero(arg) ==
    \/ arg.type = "int" /\ arg.mag = <<>>
    \/ IsTextual(arg) /\ \A i \in 1..Len(Chars(arg)) : Chars(arg)[i] = "0"

\* the last read of the current decode found fewer bits than it asked for
LastReadShort ==
    /\ reads # <<>>
    /\ Len(reads[Len(reads)].bits) < reads[Len(reads)].num_bits

\* the exceptions that stand for FrameTooLong, InsufficientBits and
\* MalformedInput (ValueError, UnicodeDecodeError), InvalidFixedBit and
\* UnknownArbitrationId
ErrorKinds ==
    {"MessageLengthException", "ValueError", "UnicodeDecodeError",
     "InvalidBitException", "NotImplementedError"}

\* C15: construction followed by a decode ends in success or in one error
\* of the closed set; an empty or all-zero argument is accepted by the
\* constructor and the decode then fails at a read that found too few bits;
\* a decode fails with the error of a short read only at such a read.
C15_ClosedErrorSet ==
    (Ended /\ calls <= 1)
    => /\ result.kind = "return"
          \/ (result.kind = "raise" /\ result.exc \in ErrorKinds)
       /\ EmptyOrZero(raw)
            => pc = "raised" /\ result = ValueError /\ LastReadShort
       /\ (pc = "raised" /\ result = ValueError) => LastReadShort

\* C16: the arbitration-id lookup comes after the start_of_frame and can_id
\* reads and before the RTR read: a decode that reads the RTR bit has a mapped
\* id and its sensor type, and a decode that ends on an unmapped id has made
\* just those two reads, consumed exactly 12 bits and recorded no later
\* field.
C16_FailFastLookup ==
    /\ (calls >= 1 /\ HasRead("rtr"))
         => /\ Mapped(data["can_id"])
            /\ sensor_type = ID_TO_SENSOR_MAP[ToNat(data["can_id"].mag)]
    /\ (pc = "raised" /\ result = NotImplementedError)
         => /\ ReadKeys = <<"sof", "can_id">>
            /\ Consumed = 12
            /\ calls = 1 => DOMAIN data = {"sof", "can_id"}

\* the text of bin() for raw without its sign and its "0b" marker: the
\* binary digits of the value
ValueDigits == SliceFrom(Unsigned(Normalize(raw).message), PrefixLen)

\* C17: when the field walk of the first decode starts, self.message holds
\* only the digits 0 and 1 and is exactly the binary digits of the value of
\* the argument, for every argument the constructor accepted.
C17_MarkerStripped ==
    (pc = "sof" /\ calls = 1)
    => /\ \A i \in 1..Len(message) : message[i] \in BinDigit
       /\ message = ValueDigits

RECURSIVE Flatten(_)
\* the bits of a read log, one read after the other
Flatten(log) ==
    IF log = <<>> THEN <<>> ELSE Head(log).bits \o Flatten(Tail(log))

\* the reads of a whole field walk, as dict keys in wire order
WireOrder(extended) ==
    <<"sof", "can_id", "rtr", "ide">>
    \o (IF extended THEN <<"extended_can_id", "rtr">> ELSE <<>>)
    \o <<"r0", "data_length_code", "data", "crc_segment", "crc_delimiter",
         "ack_bit", "ack_delimiter", "end_of_frame", "interframe_space">>

\* the same without the data read, which a data_length_code of 0 omits
WireOrderNoData(extended) ==
    SelectSeq(WireOrder(extended), LAMBDA k : k # "data")

IsPrefix(s, t) == Len(s) <= Len(t) /\ s = SubSeq(t, 1, Len(s))

\* the reads made so far follow the wire order
InWireOrder ==
    \/ IsPrefix(ReadKeys, WireOrder(TRUE))
    \/ IsPrefix(ReadKeys, WireOrder(FALSE))
    \/ IsPrefix(ReadKeys, WireOrderNoData(TRUE))
    \/ IsPrefix(ReadKeys, WireOrderNoData(FALSE))

\* the last read of the current decode was turned into a field value
LastReadStored == pc # "raised" \/ result # ValueError

\* what a decode has read and what is left are together what it started from,
\* the reads follow the wire order, and every field read holds the unsigned
\* value of the bits of its own read
WalkInvariant ==
    (calls >= 1 /\ pc # "new")
    => /\ calls = 1
            => Flatten(reads) \o message
               = SliceFrom(Normalize(raw).message, PrefixLen)
       /\ InWireOrder
       /\ \A i \in 1..Len(reads) :
            (i < Len(reads) \/ LastReadStored)
            => /\ reads[i].key \in DOMAIN data
               /\ (\A j \in (i + 1)..Len(reads) : reads[j].key # reads[i].key)
                    => data[reads[i].key] = FieldValue(reads[i].bits)

\* a step of a decode leaves a suffix of the message it found
NoBacktracking ==
    pc' # "new" /\ pc # "new"
    => /\ Len(message') <= Len(message)
       /\ message' = SliceFrom(message, Len(message) - Len(message'))

\* C18: during a decode the unread remainder is always a suffix of the
\* normalized bit sequence and never grows; the fields are read in wire
\* order (the extended id and the second RTR bit only after an ide of 1) and
\* each holds the unsigned value of the bits at its own offset, so that the
\* bits read and the bits left are together the sequence the decode started
\* from.
C18_WireOrderNoBacktracking == []WalkInvariant /\ [][NoBacktracking]_vars

\* a whole extended frame has been read field by field
C18_Witness ==
    /\ pc = "returned"
    /\ calls = 1
    /\ ReadKeys = WireOrder(TRUE)
    /\ message = <<>>

\* raw is the text of a whole frame that the decoder reads at the frame's
\* own offsets (it starts with a 1, so no leading zero is lost) and that has
\* a mapped id, with built.trail further bits behind it
AlignedFrameText ==
    /\ built.is_frame
    /\ built.cut = 0
    /\ raw.type \in {"str", "bytes"}
    /\ built.f.sof = 1
    /\ built.f.can_id \in DOMAIN ID_TO_SENSOR_MAP

\* C19: leftover bits are ignored. A frame text that decodes with every field
\* at its full width gives, with any number of further bits behind it that
\* the constructor still accepts, the same sensor type and the same fields
\* as without them (those of the frame, an empty payload being None), and
\* the further bits are left unread.
C19_LeftoverBitsIgnored ==
    (AlignedFrameText /\ calls = 1 /\ pc \in {"returned", "raised"})
    => /\ pc = "returned"
       /\ result.kind = "return"
       /\ result.sensor_type = ID_TO_SENSOR_MAP[built.f.can_id]
       /\ SameFrame(data, built.f)
       /\ built.f.data_length_code = 0 => data["data"] = NoneVal
       /\ result.value = (IF api = FullDict THEN data ELSE data["data"])
       /\ message = TrailBits(built.trail)

\* a frame followed by further bits has been decoded
C19_Witness ==
    /\ AlignedFrameText
    /\ built.trail > 1
    /\ pc = "returned"
    /\ calls = 1
    /\ api = FullDict
    /\ message = TrailBits(built.trail)

\* the current call and the one before it are first calls on two decoder
\* objects for the same argument, one of each method
BothMethodsFresh ==
    /\ pc \in {"returned", "raised"}
    /\ calls = 1
    /\ last.ended
    /\ last.first
    /\ last.api # api

\* what decode_can_message_full_dict and decode_can_message gave
FullResult == IF api = FullDict THEN result ELSE last.result

ReducedResult == IF api = Reduced THEN result ELSE last.result

\* C20: on fresh decoders for the same argument decode_can_message fails
\* exactly when decode_can_message_full_dict fails, with the same exception,
\* and when both return, it returns the sensor type and the data field of
\* the dict the other returns; it never returns (None, None).
C20_ReducedAgreesWithFull ==
    /\ BothMethodsFresh
         => /\ ReducedResult.kind = FullResult.kind
            /\ FullResult.kind = "raise" => ReducedResult = FullResult
            /\ FullResult.kind = "return"
                 => /\ ReducedResult.sensor_type = FullResult.sensor_type
                    /\ ReducedResult.value = FullResult.value["data"]
    /\ (pc = "returned" /\ api = Reduced)
         => /\ result.sensor_type # NoneVal
            /\ result.sensor_type = sensor_type

\* both methods have returned for the same argument, the payload being 0
C20_Witness ==
    /\ BothMethodsFresh
    /\ api = Reduced
    /\ pc = "returned"
    /\ last.result.kind = "return"
    /\ result.value = IntOf(0)

====
